---- MODULE Spec2Model ----
(***************************************************************************)
(* USB Charge Controller (USB_Charge_Controller.ino): the charge decision  *)
(* powerManagement(), the hardware edge ISR manualOverride() with the      *)
(* debounce window that loop() closes, the Blynk handlers                  *)
(* BLYNK_WRITE(SCHEDULE / MENU / MANUAL_OVERRIDE / FORCE_DISABLE).         *)
(*                                                                         *)
(* Two clocks are read by the code: millis() (uint32 milliseconds of       *)
(* uptime) and now() (time_t seconds of wall-clock time, which TimeLib     *)
(* counts from millis()).  All now() calls of one evaluation of            *)
(* powerManagement() are taken to return the same second.                  *)
(***************************************************************************)
EXTENDS Integers, FiniteSets, Sequences, TLC

\* ---------------------------------------------------------------- constants

\* #define DEBOUNCE_TIME 250
DEBOUNCE_TIME == 250
\* #define BLYNK_DEBOUNCE_TIME 1000
BLYNK_DEBOUNCE_TIME == 1000
\* 3600 * hour(timeNow)
SecsPerHour == 3600
\* 60 * minute(timeNow)
SecsPerMinute == 60
\* width of uint32_t (millis(), debounceStart) and of int (lastPress)
WordBits == 32
\* typedef enum:uint8_t { S_MANUAL, S_CHARGING, S_DISABLED, S_QUIESCENT } ChargeState
S_MANUAL == "S_MANUAL"
S_CHARGING == "S_CHARGING"
S_DISABLED == "S_DISABLED"
S_QUIESCENT == "S_QUIESCENT"
ChargeState == {S_MANUAL, S_CHARGING, S_DISABLED, S_QUIESCENT}

\* ------------------------------------------------------------------- bounds

\* wall-clock seconds between two instants of the model, in quarter hours
StepQuarters == 12
\* number of wall-clock steps after power-on
MaxNowSteps == 3
\* largest millis() of the hardware debounce specification, in steps of FineStep
MaxMsFine == 16
\* largest low part of millis() of the remote debounce specification, in coarse steps
MaxRemoteTicks == 2
\* wall-clock hours of the short step of the specification of days
DayStepHours == 2
\* wall-clock hours after power-on in the specification of days
MaxDayHours == 34
\* steps of time in the specification of the frame
MaxFrameSteps == 1

\* ---------------------------------------------------------------- variables

VARIABLES
    start, stop, menuSelection,        \* state.start, state.stop, state.menuSelection
    chargeState, lastChargeState,      \* state.chargeState, state.lastChargeState
    manual, disable, charging,         \* state.manual, state.disable, state.charging
    runtimeStart, savedRuntime,        \* state.runtimeStart, state.savedRuntime
    chargeProgress,                    \* state.chargeProgress, kept as numerator and denominator
    counterEnabled,                    \* static bool counterEnabled of powerManagement()
    debounce, debounceStart,           \* volatile bool debounce, volatile uint32_t debounceStart
    lastPressManual, lastPressDisable, \* static int lastPress of the two BLYNK_WRITE handlers
    millis, now,                       \* the clocks millis() and now()
    pc, manualRead,                    \* position of the polling context, and the value it read of state.manual
    notified,                          \* whether the last evaluation ran its guarded dashboard update
    ev, sess, edge, cmd, edit, race, track  \* history of the run, read only by the properties

vars == <<start, stop, menuSelection, chargeState, lastChargeState, manual, disable,
          charging, runtimeStart, savedRuntime, chargeProgress, counterEnabled,
          debounce, debounceStart, lastPressManual, lastPressDisable, millis, now,
          pc, manualRead, notified, ev, sess, edge, cmd, edit, race, track>>

scheduleVars == <<start, stop, menuSelection>>
chargeVars == <<chargeState, lastChargeState, charging, runtimeStart, savedRuntime,
                chargeProgress, counterEnabled, notified>>
debounceVars == <<debounce, debounceStart>>
remoteVars == <<lastPressManual, lastPressDisable>>
histVars == <<ev, sess, edge, cmd, edit, race, track>>

\* -------------------------------------------------------------- arithmetic

\* A uint32_t (millis(), debounceStart) or an int (lastPress) is held as the
\* 32-bit word it is, read as two's complement: the uint32_t u is held as u
\* when u < 2^31 and as u - 2^32 otherwise.  The conversions between
\* unsigned long and int of the code keep the word, and are the identity here.
QuarterPeriod == 2 ^ (WordBits - 2)
MaxInt32 == (QuarterPeriod - 1) + QuarterPeriod
MinInt32 == (-MaxInt32) - 1

\* a + d in 32 bits, for 0 <= d
Add32(a, d) ==
    IF a > MaxInt32 - d
    THEN ((a - MaxInt32) - 1) + ((d - MaxInt32) - 1)
    ELSE a + d

\* a - b in 32 bits
Sub32(a, b) ==
    IF b >= 0
    THEN IF a < MinInt32 + b
         THEN ((a + MaxInt32) + 1) + ((MaxInt32 - b) + 1)
         ELSE a - b
    ELSE IF a > MaxInt32 + b
         THEN ((a - MaxInt32) - 1) - ((b + MaxInt32) + 1)
         ELSE a - b

\* x > k as unsigned 32-bit numbers, for a word x and 0 <= k < 2^31
GtU32(x, k) == x < 0 \/ x > k

\* hour(t), minute(t), second(t) of TimeLib
hour(t) == (t \div SecsPerHour) % 24
minute(t) == (t \div SecsPerMinute) % 60
second(t) == t % 60

\* int currentTimeinSecs = 3600 * hour + 60 * minute + second
currentTimeinSecs(t) == (SecsPerHour * hour(t)) + (SecsPerMinute * minute(t)) + second(t)

\* (currentTimeinSecs >= state.start) && (currentTimeinSecs < state.stop)
InWindow(t, s, e) == (currentTimeinSecs(t) >= s) /\ (currentTimeinSecs(t) < e)

\* ------------------------------------------------------------------ clocks

\* seconds of one wall-clock step
StepSecs == StepQuarters * (SecsPerHour \div 4)

\* the hour of the day at which the controller is powered on
BootHour == 21

\* milliseconds of millis() in one wall-clock step
StepMillis == StepSecs * 1000

\* the fine millis() step: the distance of two bouncing edges
FineStep == 50

\* one coarse millis() step: just past the longer of the two debounce times
CoarseStep == BLYNK_DEBOUNCE_TIME + 1

\* ----------------------------------------------------------------- history

\* ev: the last step was an evaluation, and what that evaluation read
NoEval == [fresh |-> FALSE, manualIn |-> FALSE, prevState |-> S_QUIESCENT]

\* sess: when and from which state the present Charging session was entered
\* (enter, from), and the length and origin of the Charging session that the
\* last Disabled evaluation ended (T1, T1From; T1 = -1 when there is none)
NoSess == [enter |-> 0, from |-> S_QUIESCENT, T1 |-> -1, T1From |-> S_QUIESCENT]

\* edge: the hardware edges so far.  count: how many flipped state.manual
\* (counted up to 2); at, prev: millis() at the last flip and at the one before;
\* closed: loop() has closed the debounce window since the last flip (since
\* power-on when there is none); and of the last edge: last, whether it
\* flipped state.manual or kept it; wasClosed, the value of closed when it
\* arrived; late, whether it arrived more than DEBOUNCE_TIME after the last
\* flip or before any flip
NoEdge == [count |-> 0, at |-> 0, prev |-> 0, closed |-> FALSE,
           last |-> "none", wasClosed |-> FALSE, late |-> FALSE]

\* cmd: the dashboard's button commands so far.  sinceManual, sinceDisable: the
\* milliseconds that really passed since the last accepted command on the
\* control (since power-on when there is none), counted up to
\* BLYNK_DEBOUNCE_TIME + 1; and of the last command: last, its control;
\* toggled, whether the handler went on to toggle its flag; late, whether more
\* than BLYNK_DEBOUNCE_TIME had passed on that control; otherLate, the same
\* for the other control
NoCmd == [sinceManual |-> 0, sinceDisable |-> 0,
          last |-> "none", toggled |-> FALSE, late |-> FALSE, otherLate |-> FALSE]

\* edit: the last step was a schedule edit, what it carried (hasStart, p0,
\* hasStop, p1), the window it found (start0, stop0) and the window it had
\* set before its test for an inverted window (start1, stop1)
NoEdit == [fresh |-> FALSE, hasStart |-> FALSE, p0 |-> -1, hasStop |-> FALSE, p1 |-> -1,
           start0 |-> 0, stop0 |-> 0, start1 |-> 0, stop1 |-> 0]

\* race: a hardware edge flipped state.manual (hit) between the read and the
\* write of state.manual = !state.manual in BLYNK_WRITE(MANUAL_OVERRIDE);
\* orig: state.manual as the handler read it; done: the handler has written
NoRace == [hit |-> FALSE, orig |-> FALSE, done |-> FALSE]

\* track: the longer history, kept in the specifications that start it
\* (mode "toggle", mode "day"; with mode "off" it never changes).
\* mode "toggle".  phase: "inWindow" once a manual toggle has been accepted
\* with state.disable false at a time of day inside the window, "settled"
\* once an evaluation has then run inside the window, "none" again when a
\* manual toggle is accepted otherwise; toggled: a manual toggle has been
\* accepted since the last evaluation; quiet: none was accepted between the
\* last evaluation and the one before.
\* mode "day".  day: the day of the last entry into Charging; enter: its time;
\* charged: the seconds spent Charging on that day in the sessions before the
\* present one.
NoTrack == [mode |-> "off", phase |-> "none", toggled |-> FALSE, quiet |-> FALSE,
            day |-> -1, enter |-> 0, charged |-> 0]

SecsPerDay == 24 * SecsPerHour

\* track after a manual toggle has been accepted
TrackToggle(tr) ==
    IF tr.mode = "toggle"
    THEN [tr EXCEPT !.phase = IF InWindow(now, start, stop) /\ ~disable
                               THEN "inWindow" ELSE "none",
                    !.toggled = TRUE]
    ELSE tr

\* track after the evaluation at t into state cs
TrackEval(tr, cs, t) ==
    CASE tr.mode = "toggle" ->
            [tr EXCEPT !.phase = IF @ = "inWindow" /\ InWindow(t, start, stop)
                                 THEN "settled" ELSE @,
                       !.quiet = ~tr.toggled,
                       !.toggled = FALSE]
      [] tr.mode = "day" /\ cs = S_CHARGING /\ chargeState # S_CHARGING ->
            [tr EXCEPT !.day = t \div SecsPerDay,
                       !.enter = t,
                       !.charged = IF t \div SecsPerDay = tr.day THEN @ ELSE 0]
      [] tr.mode = "day" /\ cs # S_CHARGING /\ chargeState = S_CHARGING ->
            [tr EXCEPT !.charged = @ + (t - tr.enter)]
      [] OTHER -> tr

\* the history of commands once another step has been taken
Forget(c) == [c EXCEPT !.last = "none", !.toggled = FALSE, !.late = FALSE,
                       !.otherLate = FALSE]

Saturate(x) == IF x > BLYNK_DEBOUNCE_TIME THEN BLYNK_DEBOUNCE_TIME + 1 ELSE x

\* -------------------------------------------------------------------- Init

InitState ==
    /\ start = 0
    /\ stop = 6 * SecsPerHour
    /\ menuSelection = 1
    /\ chargeState = S_QUIESCENT
    /\ lastChargeState = S_QUIESCENT
    /\ manual = FALSE
    /\ disable = FALSE
    /\ charging = FALSE
    /\ runtimeStart = 0
    /\ savedRuntime = 0
    /\ chargeProgress = [num |-> 0, den |-> 1]
    /\ counterEnabled = FALSE
    /\ debounce = TRUE
    /\ debounceStart = 0
    /\ lastPressManual = 0
    /\ lastPressDisable = 0
    /\ millis = 0
    /\ now = BootHour * SecsPerHour
    /\ pc = "setup"
    /\ manualRead = FALSE
    /\ notified = FALSE
    /\ ev = NoEval
    /\ sess = NoSess
    /\ edge = NoEdge
    /\ cmd = NoCmd
    /\ edit = NoEdit
    /\ race = NoRace

Init == InitState /\ track = NoTrack

\* the same with the longer history started
InitToggle == InitState /\ track = [NoTrack EXCEPT !.mode = "toggle"]
InitDay == InitState /\ track = [NoTrack EXCEPT !.mode = "day"]

\* --------------------------------------------------------- powerManagement

\* a decision that tests the window before state.disable
DecideWindowFirst(dis, inWin, man) ==
    IF inWin THEN S_CHARGING
    ELSE IF dis THEN S_DISABLED
    ELSE IF man THEN S_MANUAL
    ELSE S_QUIESCENT

\* a decision whose last branch is taken for the manual flag too
DecideManualDropped(dis, inWin, man) ==
    IF ~dis
    THEN IF inWin THEN S_CHARGING ELSE S_QUIESCENT
    ELSE S_DISABLED

\* the branch of the decision: if ( !state.disable ) { window / manual / else } else { disabled }
Decide(dis, inWin, man) ==
    IF ~dis
    THEN IF inWin THEN S_CHARGING
         ELSE IF man THEN S_MANUAL
         ELSE S_QUIESCENT
    ELSE S_DISABLED

\* if ( !counterEnabled ) { counterEnabled = true; state.runtimeStart = now(); }
\* in the Charging and the Manual branch
NextRuntimeStart(cs, t) ==
    IF cs \in {S_CHARGING, S_MANUAL} /\ ~counterEnabled THEN t ELSE runtimeStart

\* counterEnabled = true (Charging, Manual), counterEnabled = false (Quiescent, Disabled)
NextCounterEnabled(cs) ==
    IF cs \in {S_CHARGING, S_MANUAL} THEN TRUE ELSE FALSE

\* state.savedRuntime = 0 left out of the Quiescent branch
NextSavedRuntimeKeptIdle(cs, t) ==
    CASE cs = S_DISABLED ->
            IF chargeState = S_CHARGING
            THEN savedRuntime + (t - runtimeStart)
            ELSE savedRuntime
      [] cs = S_MANUAL -> 0
      [] OTHER -> savedRuntime

\* state.savedRuntime += (now() - state.runtimeStart) when disabled out of S_CHARGING;
\* state.savedRuntime = 0 in the Manual and the Quiescent branch
NextSavedRuntime(cs, t) ==
    CASE cs = S_DISABLED ->
            IF chargeState = S_CHARGING
            THEN savedRuntime + (t - runtimeStart)
            ELSE savedRuntime
      [] cs = S_CHARGING -> savedRuntime
      [] OTHER -> 0

\* state.manual = false left out of the Disabled branch
NextManualKeptDisabled(cs) ==
    IF cs = S_CHARGING THEN FALSE ELSE manual

\* state.manual = false left out of the Charging branch
NextManualKeptInWindow(cs) ==
    IF cs = S_DISABLED THEN FALSE ELSE manual

\* state.manual = false in the Charging and in the Disabled branch
NextManual(cs) ==
    IF cs \in {S_CHARGING, S_DISABLED} THEN FALSE ELSE manual

\* state.charging = false left out of the Quiescent branch
NextChargingNotCleared(cs) ==
    IF cs \in {S_CHARGING, S_MANUAL} THEN TRUE
    ELSE IF cs = S_QUIESCENT THEN charging
    ELSE FALSE

\* state.charging = true (Charging, Manual), false (Quiescent, Disabled)
NextCharging(cs) ==
    IF cs \in {S_CHARGING, S_MANUAL} THEN TRUE ELSE FALSE

\* a guard that compares with the idle state instead of the last state
StateChangedFromIdle(cs, last) == cs # S_QUIESCENT

\* if ( state.chargeState != state.lastChargeState ): the guard of the dashboard update
StateChanged(cs, last) == cs # last

\* state.chargeProgress = (now() - runtimeStart + savedRuntime) / (stop - start) * 100,
\* kept as the fraction of seconds it is computed from
Progress(t, rs, saved) == [num |-> (t - rs) + saved, den |-> stop - start]

\* the history of Charging sessions, as the evaluation at t into state cs extends it
NextSess(cs, t) ==
    CASE cs = S_CHARGING /\ chargeState # S_CHARGING ->
            [sess EXCEPT !.enter = t, !.from = chargeState]
      [] cs = S_DISABLED /\ chargeState = S_CHARGING ->
            [sess EXCEPT !.T1 = t - sess.enter, !.T1From = sess.from]
      [] cs \in {S_MANUAL, S_QUIESCENT} ->
            [sess EXCEPT !.T1 = -1]
      [] OTHER -> sess

\* an evaluation that also clears state.disable
powerManagementClearsDisable ==
    /\ pc = "loop"
    /\ disable' = FALSE
    /\ ev' = [fresh |-> TRUE, manualIn |-> manual, prevState |-> chargeState]
    /\ UNCHANGED <<scheduleVars, chargeVars, manual, debounceVars, remoteVars, millis, now,
                   pc, manualRead, sess, edge, cmd, edit, race, track>>

powerManagement ==
    /\ pc = "loop"
    /\ LET t == now
           cs == Decide(disable, InWindow(t, start, stop), manual)
           rs == NextRuntimeStart(cs, t)
           saved == NextSavedRuntime(cs, t)
       IN /\ chargeState' = cs
          /\ runtimeStart' = rs
          /\ counterEnabled' = NextCounterEnabled(cs)
          /\ savedRuntime' = saved
          /\ notified' = StateChanged(cs, lastChargeState)
          /\ lastChargeState' = IF StateChanged(cs, lastChargeState) THEN cs ELSE lastChargeState
          /\ charging' = NextCharging(cs)
          /\ manual' = NextManual(cs)
          /\ chargeProgress' = IF NextCharging(cs) /\ cs = S_CHARGING
                               THEN Progress(t, rs, saved)
                               ELSE chargeProgress
          /\ ev' = [fresh |-> TRUE, manualIn |-> manual, prevState |-> chargeState]
          /\ sess' = NextSess(cs, t)
    /\ cmd' = Forget(cmd)
    /\ track' = TrackEval(track, Decide(disable, InWindow(now, start, stop), manual), now)
    /\ race' = NoRace
    /\ edit' = NoEdit
    /\ UNCHANGED <<scheduleVars, disable, debounceVars, remoteVars, millis, now,
                   pc, manualRead, edge>>

\* ------------------------------------------------------------------ clocks

\* one step of time: now() advances by StepSecs seconds and millis(), which
\* drives it, by as many milliseconds, in 32 bits; a handler that has read
\* state.manual writes it within the step
tick ==
    /\ pc # "toggling"
    /\ now + StepSecs <= (BootHour * SecsPerHour) + (MaxNowSteps * StepSecs)
    /\ now' = now + StepSecs
    /\ millis' = Add32(millis, StepMillis)
    /\ cmd' = [Forget(cmd) EXCEPT !.sinceManual = Saturate(@ + (StepMillis)),
                                  !.sinceDisable = Saturate(@ + (StepMillis))]
    /\ ev' = NoEval
    /\ track' = track
    /\ race' = race
    /\ edit' = NoEdit
    /\ UNCHANGED <<scheduleVars, chargeVars, manual, disable, debounceVars, remoteVars,
                   pc, manualRead, sess, edge>>

\* the same in the specification of days: a step of d seconds, taken from an
\* evaluation (the timer runs one every 5 s: the commands of a step are
\* followed by an evaluation within the step); a step of a day is taken
\* while state.disable is set, when the evaluations it passes over all take
\* the Disabled branch out of S_DISABLED and change nothing
tickDay(d) ==
    /\ pc # "toggling"
    /\ ev.fresh
    /\ d >= SecsPerDay => disable
    /\ now + d <= (BootHour + MaxDayHours) * SecsPerHour
    /\ now' = now + d
    /\ millis' = Add32(millis, d * 1000)
    /\ cmd' = [Forget(cmd) EXCEPT !.sinceManual = Saturate(@ + (d * 1000)),
                                  !.sinceDisable = Saturate(@ + (d * 1000))]
    /\ ev' = NoEval
    /\ track' = track
    /\ race' = race
    /\ edit' = NoEdit
    /\ UNCHANGED <<scheduleVars, chargeVars, manual, disable, debounceVars, remoteVars,
                   pc, manualRead, sess, edge>>

\* millis() alone advances by d milliseconds, in 32 bits (the specifications of
\* the two debounce windows, which never read now()); its part below a quarter
\* of the counter's period stays at most max
tickMillis(d, max) ==
    /\ (millis % QuarterPeriod) + (d % QuarterPeriod) <= max
    /\ millis' = Add32(millis, d)
    /\ cmd' = [Forget(cmd) EXCEPT !.sinceManual = Saturate(@ + d),
                                  !.sinceDisable = Saturate(@ + d)]
    /\ ev' = NoEval
    /\ track' = track
    /\ race' = race
    /\ edit' = NoEdit
    /\ UNCHANGED <<scheduleVars, chargeVars, manual, disable, debounceVars, remoteVars,
                   now, pc, manualRead, sess, edge>>

\* ------------------------------------------------------------ setup, loop

\* setup() returns and loop() starts; the ISR is attached early in setup(),
\* before the blocking Blynk.begin()
setup ==
    /\ pc = "setup"
    /\ pc' = "loop"
    /\ ev' = NoEval
    /\ track' = track
    /\ race' = NoRace
    /\ edit' = NoEdit
    /\ cmd' = Forget(cmd)
    /\ UNCHANGED <<scheduleVars, chargeVars, manual, disable, debounceVars, remoteVars,
                   millis, now, manualRead, sess, edge>>

\* a test that closes the window at DEBOUNCE_TIME already
DebounceElapsedAtLeast(ms, ds) ==
    Sub32(ms, ds) = DEBOUNCE_TIME \/ GtU32(Sub32(ms, ds), DEBOUNCE_TIME)

\* debounce && ((millis() - debounceStart) > DEBOUNCE_TIME)
DebounceElapsed(ms, ds) == GtU32(Sub32(ms, ds), DEBOUNCE_TIME)

\* a test of the debounce window with the flag inverted
loopDebounceTestInverted ==
    /\ pc = "loop"
    /\ ~debounce /\ DebounceElapsed(millis, debounceStart)
    /\ pc' = "closing"
    /\ ev' = NoEval
    /\ cmd' = Forget(cmd)
    /\ edit' = NoEdit
    /\ UNCHANGED <<scheduleVars, chargeVars, manual, disable, debounceVars, remoteVars,
                   millis, now, manualRead, sess, edge, race, track>>

\* loop(): the test of the debounce window
loopDebounceTest ==
    /\ pc = "loop"
    /\ debounce /\ DebounceElapsed(millis, debounceStart)
    /\ pc' = "closing"
    /\ ev' = NoEval
    /\ track' = track
    /\ race' = NoRace
    /\ edit' = NoEdit
    /\ cmd' = Forget(cmd)
    /\ UNCHANGED <<scheduleVars, chargeVars, manual, disable, debounceVars, remoteVars,
                   millis, now, manualRead, sess, edge>>

\* loop(): debounce = false
loopDebounceClear ==
    /\ pc = "closing"
    /\ debounce' = FALSE
    /\ pc' = "loop"
    /\ edge' = [edge EXCEPT !.closed = TRUE]
    /\ ev' = NoEval
    /\ track' = track
    /\ race' = NoRace
    /\ edit' = NoEdit
    /\ cmd' = Forget(cmd)
    /\ UNCHANGED <<scheduleVars, chargeVars, manual, disable, debounceStart, remoteVars,
                   millis, now, manualRead, sess>>

\* ------------------------------------------------------ manualOverride (ISR)

\* an ISR without the test of debounce
IsrAcceptsAlways(db) == TRUE

\* if ( !debounce ): whether the ISR accepts the edge
IsrAccepts(db) == ~db

\* the edge arrives more than DEBOUNCE_TIME after the last one that flipped
\* state.manual, or none has flipped it yet
EdgeLate == edge.count = 0 \/ GtU32(Sub32(millis, edge.at), DEBOUNCE_TIME)

\* the hardware edge: it preempts the polling context at any point
manualOverride ==
    /\ IF IsrAccepts(debounce)
       THEN /\ debounce' = TRUE
            /\ debounceStart' = millis
            /\ manual' = ~manual
       ELSE UNCHANGED <<debounce, debounceStart, manual>>
    /\ edge' = IF manual' # manual
               THEN [count |-> IF edge.count < 2 THEN edge.count + 1 ELSE 2,
                     at |-> millis, prev |-> edge.at, closed |-> FALSE,
                     last |-> "flipped", wasClosed |-> edge.closed, late |-> EdgeLate]
               ELSE [edge EXCEPT !.last = "kept", !.wasClosed = edge.closed,
                                 !.late = EdgeLate]
    /\ ev' = NoEval
    /\ track' = IF manual' # manual THEN TrackToggle(track) ELSE track
    /\ race' = IF manual' # manual /\ pc = "toggling"
               THEN [hit |-> TRUE, orig |-> manualRead, done |-> FALSE]
               ELSE race
    /\ edit' = NoEdit
    /\ cmd' = Forget(cmd)
    /\ UNCHANGED <<scheduleVars, chargeVars, disable, remoteVars, millis, now,
                   pc, manualRead, sess>>

\* --------------------------------------------------------- Blynk handlers

\* (millis() - lastPress) > BLYNK_DEBOUNCE_TIME, lastPress an int
PressAccepted(ms, lastPress) == GtU32(Sub32(ms, lastPress), BLYNK_DEBOUNCE_TIME)

\* BLYNK_WRITE(MANUAL_OVERRIDE): the test, lastPress = millis(), and the read of
\* state.manual in state.manual = !state.manual
BLYNK_WRITE_MANUAL_OVERRIDE ==
    /\ pc = "loop"
    /\ IF PressAccepted(millis, lastPressManual)
       THEN /\ lastPressManual' = millis
            /\ manualRead' = manual
            /\ pc' = "toggling"
       ELSE UNCHANGED <<lastPressManual, manualRead, pc>>
    /\ cmd' = [sinceManual |-> IF pc' = "toggling" THEN 0 ELSE cmd.sinceManual,
               sinceDisable |-> cmd.sinceDisable,
               last |-> "manual", toggled |-> (pc' = "toggling"),
               late |-> cmd.sinceManual > BLYNK_DEBOUNCE_TIME,
               otherLate |-> cmd.sinceDisable > BLYNK_DEBOUNCE_TIME]
    /\ ev' = NoEval
    /\ track' = IF pc' = "toggling" THEN TrackToggle(track) ELSE track
    /\ race' = NoRace
    /\ edit' = NoEdit
    /\ UNCHANGED <<scheduleVars, chargeVars, manual, disable, debounceVars,
                   lastPressDisable, millis, now, sess, edge>>

\* BLYNK_WRITE(MANUAL_OVERRIDE): the write of state.manual = !state.manual
manualToggleWrite ==
    /\ pc = "toggling"
    /\ manual' = ~manualRead
    /\ pc' = "loop"
    /\ ev' = NoEval
    /\ track' = track
    /\ race' = IF race.hit THEN [race EXCEPT !.done = TRUE] ELSE NoRace
    /\ edit' = NoEdit
    /\ cmd' = Forget(cmd)
    /\ UNCHANGED <<scheduleVars, chargeVars, disable, debounceVars, remoteVars,
                   millis, now, manualRead, sess, edge>>

\* BLYNK_WRITE(FORCE_DISABLE)
BLYNK_WRITE_FORCE_DISABLE ==
    /\ pc = "loop"
    /\ IF PressAccepted(millis, lastPressDisable)
       THEN /\ disable' = ~disable
            /\ lastPressDisable' = millis
       ELSE UNCHANGED <<disable, lastPressDisable>>
    /\ cmd' = [sinceManual |-> cmd.sinceManual,
               sinceDisable |-> IF disable' # disable THEN 0 ELSE cmd.sinceDisable,
               last |-> "disable", toggled |-> (disable' # disable),
               late |-> cmd.sinceDisable > BLYNK_DEBOUNCE_TIME,
               otherLate |-> cmd.sinceManual > BLYNK_DEBOUNCE_TIME]
    /\ ev' = NoEval
    /\ track' = track
    /\ race' = NoRace
    /\ edit' = NoEdit
    /\ UNCHANGED <<scheduleVars, chargeVars, manual, debounceVars, lastPressManual,
                   millis, now, pc, manualRead, sess, edge>>

\* the values a schedule edit carries for a bound: the sentinel -1, or seconds since midnight
ScheduleInputs == {-1, 9 * SecsPerHour}

\* the menu selections the dashboard sends
MenuInputs == {1, 3, 4}

\* if ( state.stop < state.start ) { temp = start; start = stop; start = temp; }
SwapIfInverted(s, e) ==
    IF e < s
    THEN LET temp == s
             start1 == e
             start2 == temp
         IN <<start2, e>>
    ELSE <<s, e>>

\* a start bound stored without the test for the sentinel
NewStartUntested(hasStartTime, p0) == IF hasStartTime THEN p0 ELSE start

\* if ( schedule.hasStartTime() ) { value = param[0].asInt(); if ( value != -1 ) state.start = value; }
NewStart(hasStartTime, p0) == IF hasStartTime /\ p0 # -1 THEN p0 ELSE start

\* if ( schedule.hasStopTime() ) { value = param[1].asInt(); if ( value != -1 ) state.stop = value; }
NewStop(hasStopTime, p1) == IF hasStopTime /\ p1 # -1 THEN p1 ELSE stop

\* BLYNK_WRITE(SCHEDULE) with param[0] = p0, param[1] = p1
BLYNK_WRITE_SCHEDULE(hasStartTime, p0, hasStopTime, p1) ==
    /\ pc = "loop"
    /\ LET s1 == NewStart(hasStartTime, p0)
           e1 == NewStop(hasStopTime, p1)
           w == SwapIfInverted(s1, e1)
       IN /\ start' = w[1]
          /\ stop' = w[2]
    /\ menuSelection' = 4
    /\ ev' = NoEval
    /\ track' = track
    /\ race' = NoRace
    /\ cmd' = Forget(cmd)
    /\ UNCHANGED <<chargeVars, manual, disable, debounceVars, remoteVars, millis, now,
                   pc, manualRead, sess, edge>>

\* the preset of a menu selection: <<start, stop>>
Preset(m) ==
    CASE m = 1 -> <<0, 6 * SecsPerHour>>
      [] m = 2 -> <<0, 8 * SecsPerHour>>
      [] m = 3 -> <<0, 10 * SecsPerHour>>
      [] OTHER -> <<start, stop>>

\* BLYNK_WRITE(MENU) with param.asInt() = m
BLYNK_WRITE_MENU(m) ==
    /\ pc = "loop"
    /\ menuSelection' = m
    /\ start' = Preset(m)[1]
    /\ stop' = Preset(m)[2]
    /\ ev' = NoEval
    /\ track' = track
    /\ race' = NoRace
    /\ edit' = NoEdit
    /\ cmd' = Forget(cmd)
    /\ UNCHANGED <<chargeVars, manual, disable, debounceVars, remoteVars, millis, now,
                   pc, manualRead, sess, edge>>

\* ---------------------------------------------------------- specifications

\* the schedule edits and menu selections of the dashboard
scheduleEdit ==
    \E hs \in BOOLEAN, he \in BOOLEAN, p0 \in ScheduleInputs, p1 \in ScheduleInputs :
        BLYNK_WRITE_SCHEDULE(hs, p0, he, p1) /\ edit' = NoEdit

\* the values of a bound in the specification of the schedule alone
EditInputs == {-1, 2 * SecsPerHour, 7 * SecsPerHour, 9 * SecsPerHour}

\* a schedule edit, with its history kept
scheduleEditLogged ==
    \E hs \in BOOLEAN, he \in BOOLEAN, p0 \in EditInputs, p1 \in EditInputs :
        /\ BLYNK_WRITE_SCHEDULE(hs, p0, he, p1)
        /\ edit' = [fresh |-> TRUE, hasStart |-> hs, p0 |-> p0, hasStop |-> he, p1 |-> p1,
                    start0 |-> start, stop0 |-> stop,
                    start1 |-> NewStart(hs, p0), stop1 |-> NewStop(he, p1)]

menuSelect == \E m \in MenuInputs : BLYNK_WRITE_MENU(m)

\* the charge decision under the dashboard's commands, time in steps of StepSecs
Next ==
    \/ setup
    \/ tick
    \/ powerManagement
    \/ BLYNK_WRITE_MANUAL_OVERRIDE
    \/ manualToggleWrite
    \/ BLYNK_WRITE_FORCE_DISABLE
    \/ scheduleEdit
    \/ menuSelect

Spec == Init /\ [][Next]_vars

\* the hardware edge and the debounce window of loop(), millis() in steps of 50 ms
NextHW ==
    \/ setup
    \/ \E d \in {FineStep, DEBOUNCE_TIME} : tickMillis(d, MaxMsFine * FineStep)
    \/ loopDebounceTest
    \/ loopDebounceClear
    \/ manualOverride

SpecHW == Init /\ [][NextHW]_vars

\* the two debounced dashboard buttons, millis() in steps around
\* BLYNK_DEBOUNCE_TIME and in quarters of the period of the 32-bit counter
NextRemote ==
    \/ setup
    \/ \E d \in {BLYNK_DEBOUNCE_TIME, CoarseStep, QuarterPeriod} :
          tickMillis(d, MaxRemoteTicks * CoarseStep)
    \/ BLYNK_WRITE_MANUAL_OVERRIDE
    \/ manualToggleWrite
    \/ BLYNK_WRITE_FORCE_DISABLE

SpecRemote == Init /\ [][NextRemote]_vars

\* the schedule under the dashboard's edits and menu selections
NextSchedule ==
    \/ setup
    \/ scheduleEditLogged
    \/ menuSelect

SpecSchedule == Init /\ [][NextSchedule]_vars

\* the hardware edge against the dashboard's manual button, millis() in steps
\* around the two debounce times
NextRace ==
    \/ setup
    \/ \E d \in {DEBOUNCE_TIME, CoarseStep} : tickMillis(d, MaxRemoteTicks * CoarseStep)
    \/ loopDebounceTest
    \/ loopDebounceClear
    \/ manualOverride
    \/ BLYNK_WRITE_MANUAL_OVERRIDE
    \/ manualToggleWrite

SpecRace == Init /\ [][NextRace]_vars

\* the charge decision under manual toggles from the switch and from the
\* dashboard and under the disable button, the window as it is at power-on
NextToggle ==
    \/ setup
    \/ tick
    \/ powerManagement
    \/ loopDebounceTest
    \/ loopDebounceClear
    \/ manualOverride
    \/ BLYNK_WRITE_MANUAL_OVERRIDE
    \/ manualToggleWrite
    \/ BLYNK_WRITE_FORCE_DISABLE

SpecToggle == InitToggle /\ [][NextToggle]_vars

\* the charge decision over two days under the dashboard's two buttons, time
\* in steps of DayStepHours hours and of a day
NextDay ==
    \/ setup
    \/ \E d \in {DayStepHours * SecsPerHour, SecsPerDay} : tickDay(d)
    \/ powerManagement
    \/ BLYNK_WRITE_MANUAL_OVERRIDE
    \/ manualToggleWrite
    \/ BLYNK_WRITE_FORCE_DISABLE

SpecDay == InitDay /\ [][NextDay]_vars

\* the hardware edge and the debounce window of loop() for as long as the
\* controller runs: millis() goes round its 32-bit period in quarters
NextLive ==
    \/ setup
    \/ \E d \in {DEBOUNCE_TIME, QuarterPeriod} : tickMillis(d, MaxMsFine * FineStep)
    \/ loopDebounceTest
    \/ loopDebounceClear
    \/ manualOverride

\* setup() returns, time advances, and loop() keeps iterating: millis() goes
\* on by quarter periods, and an iteration of loop() runs while its test of
\* the debounce window is true (it iterates many times a millisecond, and
\* the test is false only at one instant in 2^32 ms once the window is due)
SpecLive ==
    /\ Init /\ [][NextLive]_vars
    /\ WF_vars(setup)
    /\ WF_vars(tickMillis(QuarterPeriod, MaxMsFine * FineStep))
    /\ SF_vars(loopDebounceTest)
    /\ WF_vars(loopDebounceClear)

\* the charge decision and the switch under the dashboard's disable button,
\* schedule edits and menu selections, time in steps of StepSecs
NextFrame ==
    \/ setup
    \/ tick /\ now < (BootHour * SecsPerHour) + (MaxFrameSteps * StepSecs)
    \/ powerManagement
    \/ loopDebounceTest
    \/ loopDebounceClear
    \/ manualOverride
    \/ BLYNK_WRITE_FORCE_DISABLE
    \/ scheduleEdit
    \/ menuSelect

SpecFrame == Init /\ [][NextFrame]_vars

\* ------------------------------------------------------------------ claims

InWindowNow == InWindow(now, start, stop)

\* C1: after every evaluation of powerManagement() that runs with disable =
\* true the state is Disabled and state.charging is false, whatever the time of
\* day, the schedule and the manual flag are.
C1_DisableWins ==
    (ev.fresh /\ disable) => (chargeState = S_DISABLED /\ ~charging)

\* an evaluation inside the window, with manual set, that ended Disabled
C1_Witness ==
    /\ ev.fresh /\ disable /\ ev.manualIn /\ InWindowNow
    /\ chargeState = S_DISABLED /\ ~charging

\* C2: after every evaluation that runs with disable = false at a time of day
\* t with start <= t < stop, the state is Charging, state.charging is true and
\* state.manual is false, whatever state.manual was before.
C2_WindowCharges ==
    (ev.fresh /\ ~disable /\ InWindowNow)
        => (chargeState = S_CHARGING /\ charging /\ ~manual)

\* an evaluation inside the window that found manual set and cleared it
C2_Witness ==
    /\ ev.fresh /\ ~disable /\ InWindowNow /\ ev.manualIn
    /\ chargeState = S_CHARGING /\ charging /\ ~manual

\* C3: after every evaluation that runs with disable = false, manual = true
\* and a time of day outside [start, stop), the state is Manual and
\* state.charging is true.
C3_ManualOutsideWindow ==
    (ev.fresh /\ ~disable /\ ev.manualIn /\ ~InWindowNow)
        => (chargeState = S_MANUAL /\ charging)

\* an evaluation outside the window, with manual set, that ended Manual
C3_Witness ==
    /\ ev.fresh /\ ~disable /\ ev.manualIn /\ ~InWindowNow
    /\ chargeState = S_MANUAL /\ charging /\ ev.prevState = S_QUIESCENT

\* C4: after every evaluation that runs with disable = false, manual = false
\* and a time of day outside [start, stop), the state is Quiescent and
\* state.charging is false.
C4_QuiescentOutsideWindow ==
    (ev.fresh /\ ~disable /\ ~ev.manualIn /\ ~InWindowNow)
        => (chargeState = S_QUIESCENT /\ ~charging)

\* an evaluation outside the window, manual clear, that left Charging for Quiescent
C4_Witness ==
    /\ ev.fresh /\ ~disable /\ ~ev.manualIn /\ ~InWindowNow
    /\ chargeState = S_QUIESCENT /\ ~charging /\ ev.prevState = S_CHARGING

\* C5: carry-over.  A Charging session entered from a state other than
\* Disabled runs for T1 seconds, an evaluation with disable set ends it, the
\* state stays Disabled, and Charging resumes and has run for T2 more seconds:
\* the progress is then computed from T1 + T2 elapsed seconds.
C5_CarryOver ==
    (/\ ev.fresh /\ chargeState = S_CHARGING
     /\ sess.from = S_DISABLED /\ sess.T1 >= 0 /\ sess.T1From # S_DISABLED)
        => chargeProgress.num = sess.T1 + (now - sess.enter)

\* the carry-over of a first session that was entered from Quiescent
CarryOverFromQuiescent ==
    (/\ ev.fresh /\ chargeState = S_CHARGING
     /\ sess.from = S_DISABLED /\ sess.T1 >= 0 /\ sess.T1From = S_QUIESCENT)
        => chargeProgress.num = sess.T1 + (now - sess.enter)

\* C6: the dashboard update guarded by lastChargeState runs in an evaluation
\* if and only if the state that evaluation computes differs from the state
\* the evaluation before it computed (Quiescent before the first).
C6_NotifiedIffChanged ==
    ev.fresh => (notified <=> chargeState # ev.prevState)

\* an evaluation that took the state from Charging to Disabled and notified
C6_Witness ==
    /\ ev.fresh /\ notified
    /\ ev.prevState = S_CHARGING /\ chargeState = S_DISABLED

\* C7: after any schedule edit, for every prior schedule and every pair of
\* inputs, the stored window satisfies start <= stop.
C7_WindowNotInverted ==
    [][scheduleEdit => start' <= stop']_vars

\* C8: hardware edges flip state.manual at most once per debounce window: an
\* edge that arrives within DEBOUNCE_TIME of the last edge that flipped it does
\* not flip it again, so any two flips are more than DEBOUNCE_TIME apart.
C8_OneFlipPerWindow ==
    /\ edge.count = 2 => GtU32(Sub32(edge.at, edge.prev), DEBOUNCE_TIME)
    /\ (edge.last = "flipped" /\ edge.count > 1) => edge.late

\* an edge FineStep after the first flip was dropped: one flip
C8_Witness ==
    /\ edge.count = 1 /\ edge.last = "kept" /\ manual
    /\ Sub32(millis, edge.at) = FineStep

\* C9, as claimed: an edge that arrives more than DEBOUNCE_TIME after the last
\* edge that flipped state.manual, or before any edge has flipped it, flips it.
C9_NoMissedEdge ==
    (edge.last # "none" /\ edge.late) => edge.last = "flipped"

\* C9, amended: an edge flips state.manual, once, if and only if loop() has
\* closed the debounce window since the last flip (since power-on when there
\* is none); and loop() closes it only more than DEBOUNCE_TIME after that flip
\* (after power-on).
C9_FlipsIffWindowClosed ==
    /\ edge.last = "flipped" => edge.wasClosed
    /\ edge.last = "kept" => ~edge.wasClosed
    /\ edge.closed => GtU32(Sub32(millis, edge.at), DEBOUNCE_TIME)
    /\ edge.count = 0 => ~manual
    /\ edge.count = 1 => manual

\* two edges DEBOUNCE_TIME + FineStep apart, the window closed in between: two flips
C9_Witness ==
    /\ edge.count = 2 /\ edge.last = "flipped" /\ ~manual
    /\ Sub32(edge.at, edge.prev) = DEBOUNCE_TIME + FineStep

\* C10: a dashboard command on a control toggles its flag if and only if more
\* than BLYNK_DEBOUNCE_TIME milliseconds have passed since the last accepted
\* command on that control (since power-on when there is none), whatever has
\* passed on the other control.
C10_RemoteDebounce ==
    cmd.last # "none" => (cmd.toggled <=> cmd.late)

\* the same with the time read off the 32-bit millis(): a command toggles its
\* flag if and only if millis() is more than BLYNK_DEBOUNCE_TIME past the
\* lastPress of its control, modulo 2^32
RemoteDebounceModuloPeriod ==
    /\ (cmd.last = "manual" /\ ~cmd.toggled)
          => ~GtU32(Sub32(millis, lastPressManual), BLYNK_DEBOUNCE_TIME)
    /\ (cmd.last = "disable" /\ ~cmd.toggled)
          => ~GtU32(Sub32(millis, lastPressDisable), BLYNK_DEBOUNCE_TIME)
    /\ (cmd.last = "manual" /\ cmd.toggled) => (lastPressManual = millis /\ cmd.sinceManual = 0)
    /\ (cmd.last = "disable" /\ cmd.toggled) => (lastPressDisable = millis /\ cmd.sinceDisable = 0)

\* C11: a schedule edit in which one bound is the sentinel -1 and the other a
\* real value is not rejected: before the test for an inverted window it has
\* set the bound that is not the sentinel to the value given, and the bound
\* that is the sentinel is as it was; menuSelection is 4.
C11_SentinelKeepsBound ==
    (edit.fresh /\ edit.hasStart /\ edit.hasStop) =>
        /\ (edit.p0 = -1 /\ edit.p1 # -1) =>
              (edit.start1 = edit.start0 /\ edit.stop1 = edit.p1 /\ menuSelection = 4)
        /\ (edit.p0 # -1 /\ edit.p1 = -1) =>
              (edit.start1 = edit.p0 /\ edit.stop1 = edit.stop0 /\ menuSelection = 4)

\* an edit {start: -1, stop: 02:00} of the window [07:00, 09:00): start stays
C11_Witness ==
    /\ edit.fresh /\ edit.hasStart /\ edit.hasStop
    /\ edit.p0 = -1 /\ edit.p1 = 2 * SecsPerHour
    /\ edit.start0 = 7 * SecsPerHour /\ edit.start1 = 7 * SecsPerHour
    /\ edit.stop1 = 2 * SecsPerHour /\ edit.stop0 = 9 * SecsPerHour

\* C12: whenever an evaluation moves the state into Charging or into Manual
\* from a different state, state.runtimeStart is the time of that evaluation.
C12_SessionStartsOnEntry ==
    (ev.fresh /\ chargeState \in {S_CHARGING, S_MANUAL} /\ ev.prevState # chargeState)
        => runtimeStart = now

\* the same for the entries from Quiescent and from Disabled
SessionStartsOnEntryFromUncounted ==
    (/\ ev.fresh /\ chargeState \in {S_CHARGING, S_MANUAL}
     /\ ev.prevState \in {S_QUIESCENT, S_DISABLED})
        => runtimeStart = now

\* C13: when the hardware edge ISR flips state.manual between the read and the
\* write of state.manual = !state.manual in BLYNK_WRITE(MANUAL_OVERRIDE), both
\* toggles take effect: after the handler's write state.manual is what the
\* handler read.
C13_NoLostToggle ==
    race.done => manual = race.orig

C15_SavedWithinDay ==
    (ev.fresh /\ chargeState = S_CHARGING) => savedRuntime = track.charged

\* C16: in every reachable state in which the state is Manual or Quiescent,
\* state.savedRuntime is 0.
C16_SavedZeroOutsideSchedule ==
    chargeState \in {S_MANUAL, S_QUIESCENT} => savedRuntime = 0

\* Quiescent reached from Disabled with a saved runtime, which it has cleared
C16_Witness ==
    /\ ev.fresh /\ chargeState = S_QUIESCENT /\ ev.prevState = S_DISABLED
    /\ sess.T1From = S_QUIESCENT /\ savedRuntime = 0 /\ now > sess.enter /\ sess.enter > 0

\* C17: in every reachable state state.charging is true if and only if the
\* state is Charging or Manual.
C17_ChargingIffCounted ==
    charging <=> chargeState \in {S_CHARGING, S_MANUAL}

\* Manual, with the power enabled
C17_Witness ==
    chargeState = S_MANUAL /\ charging /\ ~ev.fresh /\ manual

C19_ProgressAtMostFull ==
    (ev.fresh /\ chargeState = S_CHARGING) => chargeProgress.num <= chargeProgress.den

\* C20: provided loop() keeps iterating and time advances, every debounce
\* window, the one an accepted hardware edge opens and the one open at
\* power-on, is eventually closed by loop(), and the next hardware edge is
\* then accepted: the flag debounce never stays set forever.
C20_WindowEventuallyClosed ==
    /\ debounce ~> ~debounce
    /\ [](edge.last = "flipped" => edge.wasClosed)
    /\ [](~debounce => edge.closed)

\* the window an accepted edge had opened, closed again by loop()
C20_Witness ==
    edge.count = 1 /\ edge.closed /\ ~debounce /\ manual

\* C21: an evaluation of the charge decision changes none of start, stop,
\* menuSelection and disable, and neither does the ISR of the switch; a step
\* that changes the schedule is a step of the schedule-edit handler or of the
\* preset-select handler, and a step that changes disable is a step of the
\* remote force-disable handler
C21_ScheduleAndDisableFrame ==
    [][ /\ powerManagement => UNCHANGED <<scheduleVars, disable>>
        /\ manualOverride => UNCHANGED <<scheduleVars, disable>>
        /\ (scheduleVars' # scheduleVars) => (scheduleEdit \/ menuSelect)
        /\ (disable' # disable) => BLYNK_WRITE_FORCE_DISABLE ]_vars

\* an evaluation has just run, after the switch flipped manual, with disable
\* set and an edited schedule in place: all of them are as the handlers left them
C21_Witness ==
    /\ ev.fresh
    /\ edge.last = "flipped"
    /\ disable
    /\ menuSelection = 4
    /\ start = 9 * SecsPerHour
    /\ chargeState = S_DISABLED

====
